---- MODULE Spec2Model ----
(***************************************************************************)
(* Model of the CoinjaraNG signal bot: analyze_symbol (Signal_engine.py),  *)
(* fetch_ohlcv_threadsafe (Fetch_data.py) and the batch runner run_signals *)
(* with format_signal / send_text (Bot.py).                                *)
(*                                                                         *)
(* Numbers.  A Python float is modelled as a sequence of length at most    *)
(* one: <<>> is NaN and <<v>> is the value v.  The same encoding is used   *)
(* for Python's None (<<>>) against a present value (<<v>>).  Prices are   *)
(* integers counted in units of 10^-8 / Tick, so that 1.5 * atr,           *)
(* entry * 0.002 and round(x, 8) are exact integer computations.           *)
(***************************************************************************)
EXTENDS Integers, Sequences, FiniteSets, TLC

VARIABLES rs, fr, log, analyzed

vars == <<rs, fr, log, analyzed>>

-----------------------------------------------------------------------------
(* Bounds of the model *)

\* number of configured symbols taken from the default SYMBOLS list
NumSymbols == 2
\* last close of the primary series ranges over 1..MaxPrice steps of 10^-5
MaxPrice == 2
\* atr14 ranges over 0..MaxAtr quarter ticks
MaxAtr == 2
\* candle volumes range over 0..MaxVol
MaxVol == 1
\* primary series lengths just below the minimum: MinCandles-1-LenSlack..MinCandles
LenSlack == 1

-----------------------------------------------------------------------------
(* Program constants *)

MinCandles == 60
PrimaryLimit == 400
SecondaryLimit == 120
EmaFast == 50
EmaSlow == 200
VolWindow == 20
LongRsiMax == 40
ShortRsiMin == 60
NeutralRsi == 50
\* model units per 10^-8, the last digit round(x, 8) keeps
Tick == 1000

None == <<>>
NaN == <<>>
Some(v) == <<v>>
IsNaN(x) == x = NaN

\* Python float comparisons: every comparison with NaN is False
FGt(a, b) == ~IsNaN(a) /\ ~IsNaN(b) /\ a[1] > b[1]
FLt(a, b) == ~IsNaN(a) /\ ~IsNaN(b) /\ a[1] < b[1]
FGe(a, b) == ~IsNaN(a) /\ ~IsNaN(b) /\ a[1] >= b[1]
FLe(a, b) == ~IsNaN(a) /\ ~IsNaN(b) /\ a[1] <= b[1]

\* os.getenv("SYMBOLS", ...).split(","): entries are kept as typed, so a list
\* written "BTCUSDT, ethusdt,solusdt ,ADAUSDT" yields padded lower-case entries
ConfiguredSymbols == <<"BTCUSDT", " ethusdt", "solusdt ", "ADAUSDT", "BTCUSDT">>
SYMBOLS == SubSeq(ConfiguredSymbols, 1, NumSymbols)

\* symbol.strip().upper() on the configured entries
StripUpper(s) ==
    CASE s = " ethusdt" -> "ETHUSDT"
      [] s = "solusdt " -> "SOLUSDT"
      [] OTHER -> s

\* str(e) of the exceptions the collaborators raise; str(Exception()) is ""
ExcMsgs == {"", "bybit RequestTimeout"}

-----------------------------------------------------------------------------
(* Signal_engine.py: pure parts *)

Max(a, b) == IF b > a THEN b ELSE a

\* round(x, 8): nearest multiple of Tick, ties to the even multiple
Round8(x) ==
    LET lo == x \div Tick
        r  == x % Tick
    IN  IF 2 * r < Tick THEN lo * Tick
        ELSE IF 2 * r > Tick THEN (lo + 1) * Tick
        ELSE IF lo % 2 = 0 THEN lo * Tick ELSE (lo + 1) * Tick

\* the last two rows of an indicator column of the given window: undefined
\* (NaN) on the first window-1 rows of the series
IndicatorTails(n, window, defined) ==
    IF n < window THEN {<<NaN, NaN>>}
    ELSE {<<NaN, NaN>>} \cup {<<Some(a), Some(b)>> : a, b \in defined}

RECURSIVE SumDefined(_)
SumDefined(w) ==
    IF w = <<>> THEN 0
    ELSE (IF IsNaN(Head(w)) THEN 0 ELSE Head(w)[1]) + SumDefined(Tail(w))

RECURSIVE CountDefined(_)
CountDefined(w) ==
    IF w = <<>> THEN 0
    ELSE (IF IsNaN(Head(w)) THEN 0 ELSE 1) + CountDefined(Tail(w))

\* df["volume"].rolling(window=20, min_periods=1).mean() at the last row: the
\* mean of the non-NaN volumes of the window as a fraction num/den, NaN when
\* the window holds none
RollingMeanLast(volumes) ==
    LET n == Len(volumes)
        w == SubSeq(volumes, Max(1, n - VolWindow + 1), n)
    IN  IF CountDefined(w) < 1 THEN NaN
        ELSE Some([num |-> SumDefined(w), den |-> CountDefined(w)])

\* last["volume"] > (last["vol_sma20"] * 1.2 if last["vol_sma20"] > 0 else 0)
VolOk(volume, vol_sma20) ==
    IF ~IsNaN(vol_sma20) /\ vol_sma20[1].num > 0
    THEN ~IsNaN(volume) /\ 10 * volume[1] * vol_sma20[1].den > 12 * vol_sma20[1].num
    ELSE ~IsNaN(volume) /\ volume[1] > 0

\* detect_bullish_cross / detect_bearish_cross on the last two rows of df
detect_bullish_cross(df) ==
    IF df.len < 2 THEN FALSE
    ELSE FGt(df.ema50[2], df.ema200[2]) /\ FLe(df.ema50[1], df.ema200[1])

detect_bearish_cross(df) ==
    IF df.len < 2 THEN FALSE
    ELSE FLt(df.ema50[2], df.ema200[2]) /\ FGe(df.ema50[1], df.ema200[1])

\* rsi = float(last["rsi14"]) if not pd.isna(last["rsi14"]) else 50.0
RsiOf(rsi14) == IF ~IsNaN(rsi14) THEN rsi14[1] ELSE NeutralRsi

\* atr = float(last["atr14"]) if not pd.isna(last["atr14"]) else max(entry * 0.002, 0.0)
AtrOf(atr14, entry) == IF ~IsNaN(atr14) THEN atr14[1] ELSE Max((entry * 2) \div 1000, 0)

\* Decide with the LONG momentum bound made inclusive
Decide_inclusive(bull, bear, rsi, vol_ok, confirm_1m, entry, atr) ==
    IF bull /\ rsi <= LongRsiMax /\ vol_ok /\ confirm_1m
    THEN LET stop == entry - (atr * 3) \div 2
         IN  [signal |-> "LONG", stop |-> Some(stop),
              tp |-> Some(entry + (entry - stop) * 2),
              reason |-> <<"EMA50>EMA200", "RSI (<40)", "Vol OK">>]
    ELSE IF bear /\ rsi > ShortRsiMin /\ vol_ok /\ ~confirm_1m
    THEN LET stop == entry + (atr * 3) \div 2
         IN  [signal |-> "SHORT", stop |-> Some(stop),
              tp |-> Some(entry - (stop - entry) * 2),
              reason |-> <<"EMA50<EMA200", "RSI (>60)", "Vol OK">>]
    ELSE [signal |-> "NO SIGNAL", stop |-> None, tp |-> None,
          reason |-> <<"No clean EMA cross + confirmations">>]

\* Decide with the take-profit of the SHORT branch left unassigned
Decide_no_tp(bull, bear, rsi, vol_ok, confirm_1m, entry, atr) ==
    IF bull /\ rsi < LongRsiMax /\ vol_ok /\ confirm_1m
    THEN LET stop == entry - (atr * 3) \div 2
         IN  [signal |-> "LONG", stop |-> Some(stop),
              tp |-> Some(entry + (entry - stop) * 2),
              reason |-> <<"EMA50>EMA200", "RSI (<40)", "Vol OK">>]
    ELSE IF bear /\ rsi > ShortRsiMin /\ vol_ok /\ ~confirm_1m
    THEN LET stop == entry + (atr * 3) \div 2
         IN  [signal |-> "SHORT", stop |-> Some(stop),
              tp |-> None,
              reason |-> <<"EMA50<EMA200", "RSI (>60)", "Vol OK">>]
    ELSE [signal |-> "NO SIGNAL", stop |-> None, tp |-> None,
          reason |-> <<"No clean EMA cross + confirmations">>]

\* lines 63-79: the verdict with its stop, take-profit and reasons
Decide(bull, bear, rsi, vol_ok, confirm_1m, entry, atr) ==
    IF bull /\ rsi < LongRsiMax /\ vol_ok /\ confirm_1m
    THEN LET stop == entry - (atr * 3) \div 2
         IN  [signal |-> "LONG", stop |-> Some(stop),
              tp |-> Some(entry + (entry - stop) * 2),
              reason |-> <<"EMA50>EMA200", "RSI (<40)", "Vol OK">>]
    ELSE IF bear /\ rsi > ShortRsiMin /\ vol_ok /\ ~confirm_1m
    THEN LET stop == entry + (atr * 3) \div 2
         IN  [signal |-> "SHORT", stop |-> Some(stop),
              tp |-> Some(entry - (stop - entry) * 2),
              reason |-> <<"EMA50<EMA200", "RSI (>60)", "Vol OK">>]
    ELSE [signal |-> "NO SIGNAL", stop |-> None, tp |-> None,
          reason |-> <<"No clean EMA cross + confirmations">>]

\* round(stop, 8) if stop is not None else None
RoundOpt(x) == IF x # None THEN Some(Round8(x[1])) ELSE None

\* lines 81-91: the dict analyze_symbol returns for a completed analysis
ResultDict(symbol, d, entry, rsi, atr, volume) ==
    [symbol |-> symbol, signal |-> d.signal, entry |-> Round8(entry),
     stop |-> RoundOpt(d.stop), tp |-> RoundOpt(d.tp),
     rsi |-> rsi, atr |-> atr, vol |-> volume, reason |-> d.reason]

\* lines 45 and 94: the dict analyze_symbol returns for a failure
ErrorDict(symbol, msg) == [symbol |-> symbol, error |-> msg]

\* df.shape[0], 0 while no series is held
DfLen(d) == IF d = None THEN 0 ELSE d[1].len

\* the length check with the minimum itself rejected
InsufficientData_inclusive(df) == df = None \/ df[1].len <= MinCandles

\* line 44: df is None or df.shape[0] < 60
InsufficientData(df) == df = None \/ df[1].len < MinCandles

-----------------------------------------------------------------------------
(* Bot.py: format_signal *)

\* dict.get(key): None when the key is absent
DictGet(d, k) == IF k \in DOMAIN d THEN Some(d[k]) ELSE None

\* truth value of dict.get(key): None and the empty string are falsy
Truthy(x) == x # None /\ x[1] # ""

HasKeys(d, ks) == ks \subseteq DOMAIN d

\* format_signal(res): the text, or the KeyError a missing key raises
format_signal(res) ==
    IF Truthy(DictGet(res, "error"))
    THEN [raised |-> FALSE, kind |-> "error",
          symbol |-> DictGet(res, "symbol"), body |-> res.error]
    ELSE IF DictGet(res, "signal") = Some("NO SIGNAL")
    THEN IF HasKeys(res, {"symbol", "rsi", "reason"})
         THEN [raised |-> FALSE, kind |-> "no_signal",
               symbol |-> Some(res.symbol), body |-> "No clear signal"]
         ELSE [raised |-> TRUE, kind |-> "KeyError", symbol |-> None, body |-> ""]
    ELSE IF HasKeys(res, {"symbol", "signal", "entry", "stop", "tp", "rsi", "reason"})
         THEN [raised |-> FALSE, kind |-> "signal",
               symbol |-> Some(res.symbol), body |-> res.signal]
         ELSE [raised |-> TRUE, kind |-> "KeyError", symbol |-> None, body |-> ""]

-----------------------------------------------------------------------------
(* State *)

\* the frame of analyze_symbol before the call; calls, sec_failed and
\* primary_failed record what the call did
IdleFrame ==
    [pc |-> "none", symbol |-> "", df |-> None, df1 |-> None,
     entry |-> 0, rsi |-> 0, atr |-> 0, volume |-> NaN, vol_sma20 |-> NaN,
     vol_ok |-> FALSE, bull |-> FALSE, bear |-> FALSE, confirm_1m |-> FALSE,
     exc |-> None, res |-> None,
     calls |-> <<>>, sec_failed |-> FALSE, primary_failed |-> None]

\* the frame of run_signals
IdleRun == [pc |-> "idle", i |-> 0, symbol |-> "", text |-> None, sent |-> None]

Init ==
    /\ rs = IdleRun
    /\ fr = IdleFrame
    /\ log = <<>>
    /\ analyzed = <<>>

\* series lengths the exchange returns for limit=400
PrimaryLens == {0} \cup ((MinCandles - 1 - LenSlack)..MinCandles) \cup {PrimaryLimit}
\* series lengths the exchange returns for limit=120
SecondaryLens == {0, EmaFast - 1, SecondaryLimit}
EmaSamples == {1, 2}
RsiSamples == {LongRsiMax - 1, LongRsiMax, ShortRsiMin, ShortRsiMin + 1}
AtrSamples == {k * (Tick \div 4) : k \in 0..MaxAtr}
\* closes of a low-priced contract: multiples of 0.00001
PriceStep == 1000 * Tick
CloseSamples == {j * PriceStep : j \in 1..MaxPrice}
\* _ohlcv_to_df casts the exchange's volumes to float: non-negative numbers
VolSamples == {Some(v) : v \in 0..MaxVol}

-----------------------------------------------------------------------------
(* Signal_engine.py: analyze_symbol, one action per step *)

\* the outer handler re-raising to the caller instead of returning
OuterExcept_reraise(f) == [f EXCEPT !.pc = "raised"]

\* lines 92-94: except Exception as e: return {"symbol": symbol, "error": str(e)}
OuterExcept(f) ==
    [f EXCEPT !.res = Some(ErrorDict(f.symbol, f.exc[1])), !.pc = "returned"]

\* the secondary path without its own handler: the failure reaches line 92
SecondaryExcept_propagate(f, m) ==
    [f EXCEPT !.exc = Some(m), !.df1 = None, !.pc = "except"]

\* the secondary handler defaulting the confirmation to False
SecondaryExcept_false(f, m) ==
    [f EXCEPT !.confirm_1m = FALSE, !.df1 = None, !.pc = "decide"]

\* the secondary handler fetching the series a second time
SecondaryExcept_retry(f, m) ==
    IF Len(f.calls) < 3
    THEN [f EXCEPT !.df1 = None, !.pc = "fetch1m"]
    ELSE [f EXCEPT !.confirm_1m = TRUE, !.df1 = None, !.pc = "decide"]

\* lines 60-61: except Exception: confirm_1m = True
SecondaryExcept(f, m) ==
    [f EXCEPT !.confirm_1m = TRUE, !.df1 = None, !.pc = "decide"]

\* line 43 with Fetch_data.py 30-32: the primary fetch returns a series
FetchPrimaryReturn ==
    /\ fr.pc = "fetch"
    /\ \E n \in PrimaryLens : fr' = [fr EXCEPT !.df = Some([len |-> n]),
                        !.calls = Append(@, "15m"), !.pc = "check"]
    /\ UNCHANGED <<rs, log, analyzed>>

\* line 43 with Fetch_data.py 33-35: the primary fetch logs and re-raises
FetchPrimaryRaise ==
    /\ fr.pc = "fetch"
    /\ \E m \in ExcMsgs : fr' = [fr EXCEPT !.exc = Some(m), !.primary_failed = Some(m),
                        !.calls = Append(@, "15m"), !.pc = "except"]
    /\ UNCHANGED <<rs, log, analyzed>>

\* lines 44-45
CheckLength ==
    /\ fr.pc = "check"
    /\ IF InsufficientData(fr.df)
       THEN fr' = [fr EXCEPT !.res = Some(ErrorDict(fr.symbol, "not enough data")),
                             !.pc = "returned"]
       ELSE fr' = [fr EXCEPT !.pc = "compute"]
    /\ UNCHANGED <<rs, log, analyzed>>

\* lines 46-52: the indicators of the primary series and the values read off
\* its last row; the crossovers of line 68 and 73 are functions of the same
\* immutable frame and are evaluated here
ComputePrimary ==
    /\ fr.pc = "compute"
    /\ \E ema50 \in IndicatorTails(DfLen(fr.df), EmaFast, EmaSamples),
          ema200 \in IndicatorTails(DfLen(fr.df), EmaSlow, EmaSamples),
          rsi14 \in {NaN} \cup {Some(v) : v \in RsiSamples},
          atr14 \in {NaN} \cup {Some(v) : v \in AtrSamples},
          close \in CloseSamples,
          prev_volume \in VolSamples,
          volume \in VolSamples :
       LET df == [len |-> DfLen(fr.df), ema50 |-> ema50, ema200 |-> ema200]
           volumes == [k \in 1..VolWindow |-> IF k < VolWindow THEN prev_volume ELSE volume]
           vol_sma20 == RollingMeanLast(volumes)
       IN  fr' = [fr EXCEPT !.entry = close,
                            !.rsi = RsiOf(rsi14),
                            !.atr = AtrOf(atr14, close),
                            !.volume = volume,
                            !.vol_sma20 = vol_sma20,
                            !.vol_ok = VolOk(volume, vol_sma20),
                            !.bull = detect_bullish_cross(df),
                            !.bear = detect_bearish_cross(df),
                            !.pc = "fetch1m"]
    /\ UNCHANGED <<rs, log, analyzed>>

\* lines 46-52 raising (malformed candles): caught at line 92
ComputePrimaryRaise ==
    /\ fr.pc = "compute"
    /\ \E m \in ExcMsgs : fr' = [fr EXCEPT !.exc = Some(m), !.primary_failed = Some(m), !.pc = "except"]
    /\ UNCHANGED <<rs, log, analyzed>>

\* line 57: the secondary fetch returns a series
FetchSecondaryReturn ==
    /\ fr.pc = "fetch1m"
    /\ \E n \in SecondaryLens :
         fr' = [fr EXCEPT !.df1 = Some([len |-> n]), !.vol_sma20 = NaN,
                        !.calls = Append(@, "1m"), !.pc = "compute1m"]
    /\ UNCHANGED <<rs, log, analyzed>>

\* line 57 raising, caught at line 60
FetchSecondaryRaise ==
    /\ fr.pc = "fetch1m"
    /\ \E m \in ExcMsgs :
         fr' = SecondaryExcept([fr EXCEPT !.calls = Append(@, "1m"), !.vol_sma20 = NaN,
                                         !.sec_failed = TRUE], m)
    /\ UNCHANGED <<rs, log, analyzed>>

\* lines 58-59: on an empty series .iat[-1] raises IndexError, caught at line 60
ComputeSecondary ==
    /\ fr.pc = "compute1m"
    /\ \E close \in EmaSamples,
          ema50 \in IndicatorTails(DfLen(fr.df1), EmaFast, EmaSamples) :
       IF DfLen(fr.df1) = 0
       THEN fr' = SecondaryExcept([fr EXCEPT !.sec_failed = TRUE], "IndexError")
       ELSE fr' = [fr EXCEPT !.confirm_1m = FGt(Some(close), ema50[2]),
                             !.df1 = None, !.pc = "decide"]
    /\ UNCHANGED <<rs, log, analyzed>>

\* line 58 raising, caught at line 60
ComputeSecondaryRaise ==
    /\ fr.pc = "compute1m"
    /\ \E m \in ExcMsgs : fr' = SecondaryExcept([fr EXCEPT !.sec_failed = TRUE], m)
    /\ UNCHANGED <<rs, log, analyzed>>

\* lines 63-91
DecideAndReturn ==
    /\ fr.pc = "decide"
    /\ LET d == Decide(fr.bull, fr.bear, fr.rsi, fr.vol_ok, fr.confirm_1m,
                       fr.entry, fr.atr)
       IN  fr' = [fr EXCEPT !.res = Some(ResultDict(fr.symbol, d, fr.entry, fr.rsi,
                                                    fr.atr, fr.volume)),
                            !.pc = "returned"]
    /\ UNCHANGED <<rs, log, analyzed>>

\* lines 92-94
HandleException ==
    /\ fr.pc = "except"
    /\ fr' = OuterExcept(fr)
    /\ UNCHANGED <<rs, log, analyzed>>

-----------------------------------------------------------------------------
(* Bot.py: run_signals, one action per step *)

\* the scheduled job (line 100) or /run_signals (line 89) starts a batch
StartRun ==
    /\ rs.pc \in {"idle", "done"}
    /\ rs' = [IdleRun EXCEPT !.pc = "loop", !.i = 1]
    /\ fr' = IdleFrame
    /\ log' = <<>>
    /\ analyzed' = <<>>

\* lines 53-57: the next symbol is normalised and analyze_symbol is called
CallAnalyze ==
    /\ rs.pc = "loop"
    /\ rs.i <= Len(SYMBOLS)
    /\ LET symbol == StripUpper(SYMBOLS[rs.i])
       IN  /\ rs' = [rs EXCEPT !.symbol = symbol, !.text = None, !.pc = "await"]
           /\ fr' = [IdleFrame EXCEPT !.symbol = symbol, !.pc = "fetch"]
           /\ analyzed' = Append(analyzed, symbol)
    /\ UNCHANGED log

\* lines 57-58 and 61-62: the call returns and its result is formatted; an
\* exception of either is logged and the loop goes on with the next symbol
FormatResult ==
    /\ rs.pc = "await"
    /\ fr.pc \in {"returned", "raised"}
    /\ LET failed == fr.pc = "raised" \/ "error" \in DOMAIN fr.res[1]
           t == IF fr.pc = "raised"
                THEN [raised |-> TRUE, kind |-> "Exception", symbol |-> None, body |-> ""]
                ELSE format_signal(fr.res[1])
       IN  IF t.raised
           THEN /\ rs' = [rs EXCEPT !.i = @ + 1, !.pc = "loop"]
                /\ log' = Append(log, [symbol |-> rs.symbol, failed |-> failed,
                                       rendered |-> "none", text_symbol |-> None])
           ELSE /\ rs' = [rs EXCEPT !.text = Some(t), !.pc = "send"]
                /\ log' = Append(log, [symbol |-> rs.symbol, failed |-> failed,
                                       rendered |-> t.kind, text_symbol |-> t.symbol])
    /\ fr' = IdleFrame
    /\ UNCHANGED analyzed

\* lines 59 and 33-37: send_text delivers the text, or logs the failure of
\* send_message; either way it returns normally
SendText ==
    /\ rs.pc = "send"
    /\ \E delivered \in BOOLEAN :
         rs' = [rs EXCEPT !.text = None, !.sent = Some(delivered), !.pc = "sleep"]
    /\ UNCHANGED <<fr, log, analyzed>>

\* line 60: the pause between two symbols
Sleep ==
    /\ rs.pc = "sleep"
    /\ rs' = [rs EXCEPT !.i = @ + 1, !.sent = None, !.pc = "loop"]
    /\ UNCHANGED <<fr, log, analyzed>>

\* line 53: the list is exhausted and run_signals returns
EndRun ==
    /\ rs.pc = "loop"
    /\ rs.i > Len(SYMBOLS)
    /\ rs' = [rs EXCEPT !.pc = "done"]
    /\ UNCHANGED <<fr, log, analyzed>>

-----------------------------------------------------------------------------

Next ==
    \/ StartRun
    \/ CallAnalyze
    \/ FetchPrimaryReturn
    \/ FetchPrimaryRaise
    \/ CheckLength
    \/ ComputePrimary
    \/ ComputePrimaryRaise
    \/ FetchSecondaryReturn
    \/ FetchSecondaryRaise
    \/ ComputeSecondary
    \/ ComputeSecondaryRaise
    \/ DecideAndReturn
    \/ HandleException
    \/ FormatResult
    \/ SendText
    \/ Sleep
    \/ EndRun

Spec == Init /\ [][Next]_vars

-----------------------------------------------------------------------------
(* Properties *)

Returned == fr.pc = "returned"
Res == fr.res[1]
IsError(r) == "error" \in DOMAIN r
Present(r, k) == k \in DOMAIN r /\ r[k] # None
Verdict(r) == IF IsError(r) THEN "ERROR" ELSE r.signal
InCall == fr.pc \in {"fetch", "check", "compute", "fetch1m", "compute1m", "decide", "except"}
AnalyzeStep ==
    \/ FetchPrimaryReturn \/ FetchPrimaryRaise \/ CheckLength
    \/ ComputePrimary \/ ComputePrimaryRaise
    \/ FetchSecondaryReturn \/ FetchSecondaryRaise
    \/ ComputeSecondary \/ ComputeSecondaryRaise
    \/ DecideAndReturn \/ HandleException

\* C1: analyze_symbol never raises to its caller. Whatever the primary fetch
\* and the computation do, the call can always go on until it returns, it
\* ends by returning a dict, and after a failure of the primary retrieval or
\* computation this dict is the error dict with the caller's symbol and the
\* message of the failure.
C1_NeverRaises ==
    /\ fr.pc # "raised"
    /\ InCall => ENABLED AnalyzeStep
    /\ Returned => fr.res # None
    /\ (Returned /\ fr.primary_failed # None) =>
          fr.res = Some([symbol |-> rs.symbol, error |-> fr.primary_failed[1]])

C1_Witness ==
    /\ Returned
    /\ fr.primary_failed = Some("bybit RequestTimeout")
    /\ DfLen(fr.df) = PrimaryLimit
    /\ IsError(Res)

\* the reference rule of the claim, stated with its own thresholds
RuleLong(bull, rsi, vol_ok, confirm) == bull /\ rsi < 40 /\ vol_ok /\ confirm
RuleShort(bear, rsi, vol_ok, confirm) == bear /\ rsi > 60 /\ vol_ok /\ ~confirm
RuleVerdict(bull, bear, rsi, vol_ok, confirm) ==
    IF RuleLong(bull, rsi, vol_ok, confirm) THEN "LONG"
    ELSE IF RuleShort(bear, rsi, vol_ok, confirm) THEN "SHORT"
    ELSE "NO SIGNAL"

\* C2: every non-error result carries the verdict of the reference rule over
\* (bullish cross, bearish cross, momentum, volume confirmation, secondary
\* confirmation); momentum exactly 40 or exactly 60 gives NO SIGNAL.
C2_VerdictIsRule ==
    (Returned /\ ~IsError(Res)) =>
        /\ Res.signal = RuleVerdict(fr.bull, fr.bear, Res.rsi, fr.vol_ok, fr.confirm_1m)
        /\ Res.rsi \in {40, 60} => Res.signal = "NO SIGNAL"

C2_Witness ==
    /\ Returned /\ ~IsError(Res)
    /\ fr.bull /\ fr.vol_ok /\ fr.confirm_1m /\ Res.rsi = 40
    /\ Res.signal = "NO SIGNAL"

\* C3: in every returned result stop and take-profit are both present exactly
\* when the verdict is LONG or SHORT; otherwise both are null or absent.
C3_LevelsIffSignal ==
    Returned =>
        /\ Present(Res, "stop") <=> Present(Res, "tp")
        /\ Present(Res, "stop") <=> Verdict(Res) \in {"LONG", "SHORT"}

C3_Witness ==
    /\ Returned /\ Verdict(Res) = "SHORT"
    /\ Present(Res, "stop") /\ Present(Res, "tp")

\* C4: for LONG stop < entry < take-profit and for SHORT take-profit < entry
\* < stop, for every volatility value including zero and the fallback.
C4_LevelsOrdered ==
    (Returned /\ ~IsError(Res)) =>
        /\ Res.signal = "LONG" => (Res.stop[1] < Res.entry /\ Res.entry < Res.tp[1])
        /\ Res.signal = "SHORT" => (Res.tp[1] < Res.entry /\ Res.entry < Res.stop[1])

\* C5: volume confirmation is true when the last volume exceeds 1.2 times the
\* baseline, and is true whenever the baseline is zero or undefined, whatever
\* the last volume.
C5_VolumeConfirmation ==
    fr.pc = "fetch1m" =>
        /\ (IsNaN(fr.vol_sma20) \/ fr.vol_sma20[1].num = 0) => fr.vol_ok
        /\ (/\ ~IsNaN(fr.vol_sma20) /\ ~IsNaN(fr.volume)
            /\ 5 * fr.volume[1] * fr.vol_sma20[1].den > 6 * fr.vol_sma20[1].num)
           => fr.vol_ok

\* C6: with a primary series of at least 60 candles, a failure of the
\* secondary retrieval or computation leaves a non-error result, secondary
\* confirmation true, and the verdict of the rule under confirmation = true.
C6_SecondaryAbsorbed ==
    /\ fr.sec_failed => (fr.pc \in {"decide", "returned"} /\ fr.confirm_1m)
    /\ (Returned /\ fr.sec_failed) =>
          /\ DfLen(fr.df) >= 60
          /\ ~IsError(Res)
          /\ Res.signal = RuleVerdict(fr.bull, fr.bear, Res.rsi, fr.vol_ok, TRUE)

C6_Witness ==
    /\ Returned /\ fr.sec_failed
    /\ ~IsError(Res) /\ Res.signal = "LONG"

\* C7: a primary series of fewer than 60 candles gives the error result
\* "not enough data" with no indicator computed and no verdict; a series of
\* exactly 60 candles or more is not rejected.
C7_InsufficientData ==
    /\ (Returned /\ fr.df # None /\ DfLen(fr.df) < 60) =>
          /\ fr.res = Some([symbol |-> rs.symbol, error |-> "not enough data"])
          /\ fr.calls = <<"15m">>
    /\ (Returned /\ fr.df # None /\ DfLen(fr.df) >= 60 /\ fr.primary_failed = None) =>
          ~IsError(Res)
    /\ fr.pc \in {"compute", "fetch1m", "compute1m", "decide"} => DfLen(fr.df) >= 60

C7_Witness ==
    /\ Returned /\ DfLen(fr.df) = 59
    /\ IsError(Res) /\ Res.error = "not enough data"

\* the symbols of the batch as analyze_symbol receives them
NormalisedSymbols == [k \in DOMAIN SYMBOLS |-> StripUpper(SYMBOLS[k])]

\* the part of C8 about order and completion: symbols are analyzed once each
\* in the configured order, one call at a time, and a finished batch has gone
\* through every one of them
BatchInOrder ==
    /\ Len(analyzed) <= Len(SYMBOLS)
    /\ analyzed = SubSeq(NormalisedSymbols, 1, Len(analyzed))
    /\ InCall => (rs.pc = "await" /\ Len(analyzed) = rs.i)
    /\ Len(log) <= Len(analyzed)
    /\ \A k \in DOMAIN log : log[k].symbol = NormalisedSymbols[k]
    /\ rs.pc = "done" => (analyzed = NormalisedSymbols /\ Len(log) = Len(SYMBOLS))

\* C8: in a batch every configured symbol is analyzed exactly once in order, a
\* failure never aborts the batch, and each failed symbol is rendered as an
\* error message for that symbol only.
C8_BatchIsolation ==
    /\ BatchInOrder
    /\ \A k \in DOMAIN log :
          log[k].failed =>
              (log[k].rendered = "error" /\ log[k].text_symbol = Some(log[k].symbol))

\* C9: within one call the primary series is fetched exactly once and the
\* secondary at most once, never again after a failure, and the secondary
\* only after the primary returned at least 60 candles.
C9_FetchOnce ==
    /\ fr.calls \in {<<>>, <<"15m">>, <<"15m", "1m">>}
    /\ (InCall /\ fr.pc # "fetch") \/ Returned => fr.calls # <<>>
    /\ Len(fr.calls) > 1 =>
          (fr.df # None /\ DfLen(fr.df) >= 60 /\ fr.primary_failed = None)

C9_Witness ==
    /\ Returned /\ fr.sec_failed
    /\ fr.calls = <<"15m", "1m">>

\* C10: after a failure of the secondary retrieval or computation the verdict
\* is never SHORT; SHORT needs a retrieved secondary series whose last close
\* is not above its fast average.
C10_NoShortOnFallback ==
    Returned =>
        /\ fr.sec_failed => Verdict(Res) # "SHORT"
        /\ Verdict(Res) = "SHORT" =>
              (fr.calls = <<"15m", "1m">> /\ ~fr.sec_failed /\ ~fr.confirm_1m)

C10_Witness ==
    /\ Returned /\ Verdict(Res) = "SHORT"
    /\ ~fr.sec_failed

====
